---- MODULE Spec2Model ----
(***************************************************************************)
(* Model of med3d/transforms.py: the resolver get_transform and the        *)
(* pipeline builders get_base_transforms, get_train_transforms,            *)
(* get_val_transforms and get_test_transforms.                             *)
(*                                                                         *)
(* A transform instance is a record [id, cls, module, kw]: `id` is the     *)
(* object identity (Python compares instances by identity), `cls` the      *)
(* class name, `module` the __module__ string, `kw` the keyword arguments  *)
(* the constructor was called with.  A string that the code searches (a    *)
(* __module__, the words "dictionary", "spatial", ...) is the sequence of  *)
(* its characters, so that `in` is the substring test of Python.  A dict   *)
(* of Python is a function whose DOMAIN is the set of its keys.  A scalar interpolation   *)
(* mode "m" is written <<"m">>; a per-key list has one entry per key (at   *)
(* least two, because image_cols and label_cols are both non-empty).       *)
(***************************************************************************)
EXTENDS FiniteSets, Integers, Sequences, TLC

VARIABLES config, result

vars == <<config, result>>

\* ---------- bounds ----------
MaxTfms == 2
MaxCols == 2

\* ---------- helpers for dicts and lists ----------
Put(f, k, v) == [x \in (DOMAIN f) \cup {k} |-> IF x = k THEN v ELSE f[x]]

Range(s) == {s[i] : i \in DOMAIN s}

\* Python's `word in module` on strings: word occurs as a substring
In(word, module) ==
  \E i \in 0..(Len(module) - Len(word)) :
     SubSeq(module, i + 1, i + Len(word)) = word

\* the words the code searches for (lines 55, 87-89)
dictionary == <<"d", "i", "c", "t", "i", "o", "n", "a", "r", "y">>

intensity == <<"i", "n", "t", "e", "n", "s", "i", "t", "y">>

spatial == <<"s", "p", "a", "t", "i", "a", "l">>

croppad == <<"c", "r", "o", "p", "p", "a", "d">>

\* "monai.transforms." + group + "." + family
MonaiModule(group, family) ==
  <<"m", "o", "n", "a", "i", ".", "t", "r", "a", "n", "s", "f", "o", "r", "m", "s", ".">>
    \o group \o <<".">> \o family

\* ---------- the two registries ----------
\* What `patch` and `monai.transforms` hold is an input of get_transform.
\* A class is described by what the code and the call transform(**kwargs)
\* read of it: its __module__; whether it has an __init__ written in Python
\* (py_init; without one, __init__ is object's and has no __code__); the
\* keywords its __init__ declares (params); those of them without a default
\* (required); whether __init__ ends with **kwargs (var_kw); and
\* __init__.__code__.co_varnames, which lists `self`, the parameters and the
\* local variables of __init__.
\*   patch.ToTensord         __init__(self, keys, **kwargs), shadows monai's
\*   patch.ClipLabelsd       __init__(self, keys)
\*   patch.PrintShape        __init__(self)
\*   patch.LogRecord         no __init__, only __call__
\*   patch.ResampleToLabeld  __init__(self, keys) with a local variable `mode`
\*   patch.ElasticPatchd     __init__(self, keys, prob=...), imported into
\*                           patch from the module med3d.spatial_intensity
\*   monai RandFlip          an array (non-dictionary) transform
\*   monai RandSpatialCropd  roi_size has no default
PatchModule == <<"m", "e", "d", "3", "d", ".", "p", "a", "t", "c", "h">>

SpatialIntensityModule ==
  <<"m", "e", "d", "3", "d", ".", "s", "p", "a", "t", "i", "a", "l", "_", "i", "n", "t", "e", "n", "s", "i", "t", "y">>

PatchAttrs == {"ToTensord", "ClipLabelsd", "PrintShape", "LogRecord",
               "ResampleToLabeld", "ElasticPatchd"}

PatchClass(n) ==
  CASE n = "ToTensord" ->
         [name |-> n, registry |-> "patch", module |-> PatchModule,
          py_init |-> TRUE,
          params |-> {"keys"}, required |-> {"keys"}, var_kw |-> TRUE,
          co_varnames |-> {"self", "keys", "kwargs"}]
    [] n = "ClipLabelsd" ->
         [name |-> n, registry |-> "patch", module |-> PatchModule,
          py_init |-> TRUE,
          params |-> {"keys"}, required |-> {"keys"}, var_kw |-> FALSE,
          co_varnames |-> {"self", "keys"}]
    [] n = "PrintShape" ->
         [name |-> n, registry |-> "patch", module |-> PatchModule,
          py_init |-> TRUE,
          params |-> {}, required |-> {}, var_kw |-> FALSE,
          co_varnames |-> {"self"}]
    [] n = "LogRecord" ->
         [name |-> n, registry |-> "patch", module |-> PatchModule,
          py_init |-> FALSE,
          params |-> {}, required |-> {}, var_kw |-> FALSE,
          co_varnames |-> {}]
    [] n = "ResampleToLabeld" ->
         [name |-> n, registry |-> "patch", module |-> PatchModule,
          py_init |-> TRUE,
          params |-> {"keys"}, required |-> {"keys"}, var_kw |-> FALSE,
          co_varnames |-> {"self", "keys", "mode"}]
    [] n = "ElasticPatchd" ->
         [name |-> n, registry |-> "patch", module |-> SpatialIntensityModule,
          py_init |-> TRUE,
          params |-> {"keys", "prob"}, required |-> {"keys"},
          var_kw |-> FALSE, co_varnames |-> {"self", "keys", "prob"}]

MonaiAttrs == {"RandZoomd", "RandSpatialCropd",
               "RandGaussianNoised", "ToTensord", "RandFlip"}

MonaiClass(n) ==
  CASE n = "RandZoomd" ->
         [name |-> n, registry |-> "monai", py_init |-> TRUE,
          module |-> MonaiModule(spatial, dictionary),
          params |-> {"keys", "prob", "mode"},
          required |-> {"keys"}, var_kw |-> FALSE,
          co_varnames |-> {"self", "keys", "prob", "mode"}]
    [] n = "RandSpatialCropd" ->
         [name |-> n, registry |-> "monai", py_init |-> TRUE,
          module |-> MonaiModule(croppad, dictionary),
          params |-> {"keys", "roi_size"},
          required |-> {"keys", "roi_size"}, var_kw |-> FALSE,
          co_varnames |-> {"self", "keys", "roi_size"}]
    [] n = "RandGaussianNoised" ->
         [name |-> n, registry |-> "monai", py_init |-> TRUE,
          module |-> MonaiModule(intensity, dictionary),
          params |-> {"keys", "prob", "mean", "std"},
          required |-> {"keys"}, var_kw |-> FALSE,
          co_varnames |-> {"self", "keys", "prob", "mean", "std"}]
    [] n = "ToTensord" ->
         [name |-> n, registry |-> "monai", py_init |-> TRUE,
          module |-> MonaiModule(<<"u", "t", "i", "l", "i", "t", "y">>, dictionary),
          params |-> {"keys"}, required |-> {"keys"}, var_kw |-> FALSE,
          co_varnames |-> {"self", "keys"}]
    [] n = "RandFlip" ->
         [name |-> n, registry |-> "monai", py_init |-> TRUE,
          module |-> MonaiModule(spatial, <<"a", "r", "r", "a", "y">>),
          params |-> {"prob", "spatial_axis"},
          required |-> {}, var_kw |-> FALSE,
          co_varnames |-> {"self", "prob", "spatial_axis"}]

NoClass == [name |-> "none", registry |-> "none", module |-> <<>>,
            py_init |-> FALSE,
            params |-> {}, required |-> {}, var_kw |-> FALSE,
            co_varnames |-> {}]

TfmNames == PatchAttrs \cup MonaiAttrs \cup {"NoSuchTransform"}

\* ---------- configuration ----------
not_a_transform == {"prob", "spacing", "orientation", "mode"}

AllCols(c) == c.image_cols \o c.label_cols

ImageNames == <<"ct", "mr", "pet", "t2">>

LabelNames == <<"seg", "seg2", "seg3", "seg4">>

\* mode: [bilinear, ..., nearest, ...], one entry per key of image_cols + label_cols
PerKeyMode(ni, nl) ==
  [i \in 1..(ni + nl) |-> IF i <= ni THEN "bilinear" ELSE "nearest"]

\* the mapping the code applies and another one a configuration could ask for
KidneyRemap == [orig_labels |-> <<1, 2, 3, 4, 5, 6>>,
                target_labels |-> <<1, 2, 2, 2, 2, 2>>]

OtherRemap == [orig_labels |-> <<1, 2>>, target_labels |-> <<2, 1>>]

\* the settings of the base preprocessing: one mode for every key with the
\* kidney mapping, or a mode per key with another mapping
BaseChoices(ni, nl) ==
  {[mode |-> <<"bilinear">>, remap |-> KidneyRemap],
   [mode |-> PerKeyMode(ni, nl), remap |-> OtherRemap]}

\* parameter mappings a configuration may give for a transform name:
\* nothing, or its own keys, mode and prob
KwChoices == {<<>>,
              [keys |-> <<"zz">>, mode |-> <<"nearest">>, prob |-> 99]}

\* the arguments of its own a configuration gives a transform
OwnArgs(tn) ==
  IF tn = "RandSpatialCropd" THEN [roi_size |-> <<32, 32, 32>>] ELSE <<>>

Merge(f, g) ==
  [x \in (DOMAIN f) \cup (DOMAIN g) |-> IF x \in DOMAIN g THEN g[x] ELSE f[x]]

InjSeqs(S, n) ==
  {s \in UNION {[1..k -> S] : k \in 0..n} :
     \A i, j \in DOMAIN s : i # j => s[i] # s[j]}

\* config.transforms iterates in declaration order: the global arguments
\* and the transform names
Keys(names) == <<"prob", "spacing">> \o names \o <<"orientation", "mode">>

ConfigsFor(n) ==
  {[image_cols |-> SubSeq(ImageNames, 1, n),
    label_cols |-> SubSeq(LabelNames, 1, n),
    mode |-> bc.mode, prob |-> 10, spacing |-> <<1, 1, 1>>,
    remap |-> bc.remap,
    tkeys |-> Keys(names),
    tkw |-> [tn \in Range(names) |->
               IF own THEN Merge(OwnArgs(tn), kw) ELSE kw]] :
     bc \in BaseChoices(n, n),
     names \in InjSeqs(TfmNames, MaxTfms), kw \in KwChoices,
     own \in BOOLEAN}

\* one image and one label column, or MaxCols of each
Configs == UNION {ConfigsFor(n) : n \in {1, MaxCols}}

\* ---------- base transforms ----------
Inst(id, cls, module, kw) ==
  [id |-> id, cls |-> cls, module |-> module, kw |-> kw]

Lib(group) == MonaiModule(group, dictionary)

MapLabelStep(c) ==
  Inst("base:remap", "MapLabelValued", Lib(<<"u", "t", "i", "l", "i", "t", "y">>),
       [keys |-> c.label_cols,
        orig_labels |-> <<1, 2, 3, 4, 5, 6>>,
        target_labels |-> <<1, 2, 2, 2, 2, 2>>])

SpacingStep(c) ==
  Inst("base:spacing", "Spacingd", Lib(spatial),
       [keys |-> AllCols(c), mode |-> c.mode, pixdim |-> c.spacing])

get_base_transforms(c) ==
  << Inst("base:load", "LoadImaged", Lib(<<"i", "o">>), [keys |-> AllCols(c)]),
     Inst("base:channel", "EnsureChannelFirstd", Lib(<<"u", "t", "i", "l", "i", "t", "y">>),
          [keys |-> AllCols(c)]),
     SpacingStep(c),
     Inst("base:scale", "ScaleIntensityd", Lib(intensity),
          [keys |-> c.image_cols, minv |-> 0, maxv |-> 1]),
     MapLabelStep(c),
     Inst("base:normalize", "NormalizeIntensityd", Lib(intensity),
          [keys |-> c.image_cols]) >>

\* the interpolation mode Spacingd uses for its i-th key: a scalar mode is
\* repeated for every key, a list is taken position by position
ModeOfKey(step, i) ==
  IF Len(step.kw.mode) = 1 THEN step.kw.mode[1] ELSE step.kw.mode[i]

ConcatSteps(c) ==
  << Inst("concat:image", "ConcatItemsd", Lib(<<"u", "t", "i", "l", "i", "t", "y">>),
          [keys |-> c.image_cols, name |-> "image", dim |-> 0]),
     Inst("concat:label", "ConcatItemsd", Lib(<<"u", "t", "i", "l", "i", "t", "y">>),
          [keys |-> c.label_cols, name |-> "label", dim |-> 0]) >>

EnsureTypeStep(c) ==
  Inst("ensure_type", "EnsureTyped", Lib(<<"u", "t", "i", "l", "i", "t", "y">>), [keys |-> AllCols(c)])

\* ---------- get_transform ----------
NoTfm == Inst("none", "none", <<>>, <<>>)

\* mutant: the general library is consulted before the override registry
LookupTransform_monai_first(tfm_name) ==
  IF tfm_name \in MonaiAttrs
  THEN IF ~In(dictionary, MonaiClass(tfm_name).module)
       THEN [status |-> "AssertionError", cls |-> NoClass]
       ELSE [status |-> "ok", cls |-> MonaiClass(tfm_name)]
  ELSE IF tfm_name \in PatchAttrs
  THEN [status |-> "ok", cls |-> PatchClass(tfm_name)]
  ELSE [status |-> "AttributeError", cls |-> NoClass]

\* mutant: the dictionary-family assertion is missing
LookupTransform_no_assert(tfm_name) ==
  IF tfm_name \in PatchAttrs
  THEN [status |-> "ok", cls |-> PatchClass(tfm_name)]
  ELSE IF tfm_name \notin MonaiAttrs
  THEN [status |-> "AttributeError", cls |-> NoClass]
  ELSE [status |-> "ok", cls |-> MonaiClass(tfm_name)]

\* lines 50-56: the override registry first, then the general library,
\* which must be of the dictionary family
LookupTransform(tfm_name) ==
  IF tfm_name \in PatchAttrs
  THEN [status |-> "ok", cls |-> PatchClass(tfm_name)]
  ELSE IF tfm_name \notin MonaiAttrs
  THEN [status |-> "AttributeError", cls |-> NoClass]
  ELSE IF ~In(dictionary, MonaiClass(tfm_name).module)
  THEN [status |-> "AssertionError", cls |-> NoClass]
  ELSE [status |-> "ok", cls |-> MonaiClass(tfm_name)]

SetKeys(kwargs, c) == Put(kwargs, "keys", AllCols(c))

InjectMode(kwargs, transform, c) ==
  IF "mode" \in transform.co_varnames /\ "mode" \notin DOMAIN kwargs
  THEN Put(kwargs, "mode", c.mode)
  ELSE kwargs

InjectProb(kwargs, transform, c) ==
  IF "prob" \in transform.co_varnames /\ "prob" \notin DOMAIN kwargs
  THEN Put(kwargs, "prob", c.prob)
  ELSE kwargs

\* transform(**kwargs) is a TypeError when a keyword is not declared and
\* __init__ has no **kwargs, or when a parameter without default is missing
Construct(tfm_name, transform, kwargs) ==
  IF /\ (transform.var_kw \/ DOMAIN kwargs \subseteq transform.params)
     /\ transform.required \subseteq DOMAIN kwargs
  THEN [status |-> "ok",
        tfm |-> Inst(tfm_name, transform.name, transform.module, kwargs)]
  ELSE [status |-> "TypeError", tfm |-> NoTfm]

\* `stage` is the place get_transform ended at: the lookup (lines 50-56),
\* the read of config.transforms (57), the read of co_varnames (59), or the
\* call of the constructor (64)
Failed(status, stage, c, cls) ==
  [status |-> status, stage |-> stage, tfm |-> NoTfm, config |-> c,
   cls |-> cls, given |-> <<>>, passed |-> <<>>, called |-> FALSE]

\* kwargs is the mapping stored in the configuration itself, so every
\* assignment to it is an assignment to config.transforms[tfm_name]
get_transform(tfm_name, c) ==
  LET found == LookupTransform(tfm_name) IN
  IF found.status # "ok"
  THEN Failed(found.status, "lookup", c, found.cls)
  ELSE IF tfm_name \notin DOMAIN c.tkw
  THEN Failed("KeyError", "config", c, found.cls)
  ELSE
    LET transform == found.cls
        keyed == SetKeys(c.tkw[tfm_name], c)
    IN IF ~transform.py_init
       THEN [Failed("AttributeError", "co_varnames",
                    [c EXCEPT !.tkw[tfm_name] = keyed], transform)
               EXCEPT !.given = c.tkw[tfm_name]]
       ELSE
         LET kwargs == InjectProb(InjectMode(keyed, transform, c),
                                  transform, c)
             made == Construct(tfm_name, transform, kwargs)
         IN [status |-> made.status, stage |-> "call", tfm |-> made.tfm,
             config |-> [c EXCEPT !.tkw[tfm_name] = kwargs],
             cls |-> transform, given |-> c.tkw[tfm_name],
             passed |-> kwargs, called |-> TRUE]

\* ---------- get_train_transforms ----------
TfmNamesOf(c) == SelectSeq(c.tkeys, LAMBDA tn : tn \notin not_a_transform)

\* the list comprehension of line 85: names are resolved from left to right
\* and the first exception ends the build
RECURSIVE ResolveAll(_, _)
ResolveAll(names, c) ==
  IF names = <<>>
  THEN [status |-> "ok", tfms |-> <<>>, config |-> c, calls |-> <<>>]
  ELSE LET r == get_transform(Head(names), c) IN
       IF r.status # "ok"
       THEN [status |-> r.status, tfms |-> <<>>, config |-> r.config,
             calls |-> <<Head(names)>>]
       ELSE LET rest == ResolveAll(Tail(names), r.config) IN
            [status |-> rest.status,
             tfms |-> IF rest.status = "ok" THEN <<r.tfm>> \o rest.tfms
                      ELSE <<>>,
             config |-> rest.config,
             calls |-> <<Head(names)>> \o rest.calls]

Ids(tfms) == {tfms[i].id : i \in DOMAIN tfms}

\* mutant: intensity transforms are emitted before crop/pad transforms
Buckets_intensity_first(base, train_tfms) ==
  LET intensity_tfms ==
        SelectSeq(train_tfms, LAMBDA tfm : In(intensity, tfm.module))
      spatial_tfms ==
        SelectSeq(train_tfms, LAMBDA tfm : In(spatial, tfm.module))
      croppad_tfms ==
        SelectSeq(train_tfms, LAMBDA tfm : In(croppad, tfm.module))
      tfms == base \o spatial_tfms \o intensity_tfms \o croppad_tfms
  IN tfms \o SelectSeq(train_tfms, LAMBDA tfm : tfm.id \notin Ids(tfms))

\* lines 87-94: three filters on the module name, then the rest
Buckets(base, train_tfms) ==
  LET intensity_tfms ==
        SelectSeq(train_tfms, LAMBDA tfm : In(intensity, tfm.module))
      spatial_tfms ==
        SelectSeq(train_tfms, LAMBDA tfm : In(spatial, tfm.module))
      croppad_tfms ==
        SelectSeq(train_tfms, LAMBDA tfm : In(croppad, tfm.module))
      tfms == base \o spatial_tfms \o croppad_tfms \o intensity_tfms
  IN tfms \o SelectSeq(train_tfms, LAMBDA tfm : tfm.id \notin Ids(tfms))

get_train_transforms(c) ==
  LET tfm_names == TfmNamesOf(c)
      resolved == ResolveAll(tfm_names, c)
  IN IF resolved.status # "ok"
     THEN [status |-> resolved.status, tfms |-> <<>>,
           config |-> resolved.config, calls |-> resolved.calls]
     ELSE [status |-> "ok",
           tfms |-> Buckets(get_base_transforms(c), resolved.tfms)
                      \o ConcatSteps(c),
           config |-> resolved.config, calls |-> resolved.calls]

\* ---------- get_val_transforms, get_test_transforms ----------
\* mutant: the crop is keyed on the first image column
CropStep_image_key(c) ==
  Inst("crop", "CropForegroundd", Lib(croppad),
       [keys |-> AllCols(c), source_key |-> c.image_cols[1], margin |-> 64])

CropStep(c) ==
  Inst("crop", "CropForegroundd", Lib(croppad),
       [keys |-> AllCols(c), source_key |-> c.label_cols[1], margin |-> 64])

get_val_transforms(c) ==
  get_base_transforms(c) \o <<EnsureTypeStep(c)>> \o ConcatSteps(c)
    \o <<CropStep(c)>>

get_test_transforms(c) ==
  get_base_transforms(c) \o <<EnsureTypeStep(c)>> \o ConcatSteps(c)

\* ---------- the state machine ----------
NoResult ==
  [op |-> "none", arg |-> "", status |-> "ok", tfms |-> <<>>,
   stage |-> "none", cls |-> NoClass, given |-> <<>>, passed |-> <<>>,
   called |-> FALSE,
   calls |-> <<>>]

Init ==
  /\ config \in Configs
  /\ result = NoResult

\* r is the one outcome of the call
GetTransform(tfm_name) ==
  \E r \in {get_transform(tfm_name, config)} :
  /\ config' = r.config
  /\ result' = [op |-> "get_transform", arg |-> tfm_name,
                status |-> r.status,
                tfms |-> IF r.status = "ok" THEN <<r.tfm>> ELSE <<>>,
                cls |-> r.cls, given |-> r.given, passed |-> r.passed,
                called |-> r.called, calls |-> <<tfm_name>>,
                stage |-> r.stage]

GetTrainTransforms ==
  \E r \in {get_train_transforms(config)} :
  /\ config' = r.config
  /\ result' = [NoResult EXCEPT !.op = "train", !.status = r.status,
                                !.tfms = r.tfms, !.calls = r.calls]

GetValTransforms ==
  /\ result' = [NoResult EXCEPT !.op = "val",
                                !.tfms = get_val_transforms(config)]
  /\ UNCHANGED config

GetTestTransforms ==
  /\ result' = [NoResult EXCEPT !.op = "test",
                                !.tfms = get_test_transforms(config)]
  /\ UNCHANGED config

\* the names get_transform is called with: every name the configuration
\* has, and three it may lack: one unknown to both registries, one of the
\* non-dictionary family and one that resolves
CallNames(c) ==
  (Range(c.tkeys) \ not_a_transform)
    \cup {"NoSuchTransform", "RandFlip", "ToTensord"}

Next ==
  \/ \E tfm_name \in CallNames(config) : GetTransform(tfm_name)
  \/ GetTrainTransforms
  \/ GetValTransforms
  \/ GetTestTransforms

Spec == Init /\ [][Next]_vars

TypeOK ==
  /\ result.status \in {"ok", "AttributeError", "AssertionError",
                        "KeyError", "TypeError"}
  /\ result.op \in {"none", "get_transform", "train", "val", "test"}

\* ---------- vocabulary of the properties ----------
BaseClasses == <<"LoadImaged", "EnsureChannelFirstd", "Spacingd",
                 "ScaleIntensityd", "MapLabelValued", "NormalizeIntensityd">>

\* 1 spatial, 2 crop/pad, 3 intensity, 4 other
Category(tfm) ==
  IF In(spatial, tfm.module) THEN 1
  ELSE IF In(croppad, tfm.module) THEN 2
  ELSE IF In(intensity, tfm.module) THEN 3
  ELSE 4

Pos(s, x) == CHOOSE i \in DOMAIN s : s[i] = x

Configured(c) == Range(c.tkeys) \ not_a_transform

Unknown(n) == n \notin PatchAttrs /\ n \notin MonaiAttrs

NonDictionaryOnly(n) ==
  /\ n \notin PatchAttrs
  /\ n \in MonaiAttrs
  /\ ~In(dictionary, MonaiClass(n).module)

IsCrop(tfm) == tfm.cls = "CropForegroundd"

TrainBuilt == result.op = "train" /\ result.status = "ok"

\* C1: a built train pipeline starts with the six base steps in the fixed
\* order, and what follows them splits into four consecutive runs: first
\* transforms of a spatial module, then of a crop/pad module, then of an
\* intensity module, then transforms of none of the three, whatever the
\* declaration order in config.transforms.
C1_TrainOrder ==
  TrainBuilt =>
    LET n == Len(result.tfms) IN
    /\ n >= 6
    /\ \A i \in 1..6 : result.tfms[i].cls = BaseClasses[i]
    /\ \E a, b, c \in 6..n :
         /\ a <= b /\ b <= c
         /\ \A i \in 7..a : In(spatial, result.tfms[i].module)
         /\ \A i \in (a + 1)..b : In(croppad, result.tfms[i].module)
         /\ \A i \in (b + 1)..c : In(intensity, result.tfms[i].module)
         /\ \A i \in (c + 1)..n : Category(result.tfms[i]) = 4

\* a pipeline built from a configuration that declares an intensity
\* transform before a spatial one
C1_Witness ==
  /\ TrainBuilt
  /\ \E i, j \in DOMAIN config.tkeys :
       /\ i < j
       /\ config.tkeys[i] = "RandGaussianNoised"
       /\ config.tkeys[j] \in {"RandZoomd", "ElasticPatchd"}

\* C7: the validation pipeline has a foreground crop with margin 64 keyed on
\* label_cols[0], the test pipeline has none, and without the crop the two
\* are the same sequence.
C7_ValTestCrop ==
  /\ result.op = "val" =>
       /\ \E i \in DOMAIN result.tfms :
            /\ IsCrop(result.tfms[i])
            /\ result.tfms[i].kw.margin = 64
            /\ result.tfms[i].kw.source_key = config.label_cols[1]
       /\ SelectSeq(result.tfms, LAMBDA tfm : ~IsCrop(tfm))
            = get_test_transforms(config)
  /\ result.op = "test" =>
       /\ \A i \in DOMAIN result.tfms : ~IsCrop(result.tfms[i])
       /\ result.tfms
            = SelectSeq(get_val_transforms(config), LAMBDA tfm : ~IsCrop(tfm))

\* a validation pipeline of a configuration with more than one label column
C7_Witness ==
  /\ result.op = "val"
  /\ Len(config.label_cols) >= 2
  /\ \E i \in DOMAIN result.tfms : IsCrop(result.tfms[i])

\* C8: a name of the override registry resolves to the override class, also
\* when the general library has the name, and is never rejected by the
\* lookup or the dictionary-family check.
C8_OverridePriority ==
  (result.op = "get_transform" /\ result.arg \in PatchAttrs) =>
    /\ result.cls = PatchClass(result.arg)
    /\ result.stage # "lookup"
    /\ result.status # "AssertionError"
    /\ result.status = "AttributeError" => ~result.cls.py_init

\* a colliding name was resolved and constructed from a class whose module
\* is not of the dictionary family
C8_Witness ==
  /\ result.op = "get_transform"
  /\ result.arg \in PatchAttrs \cap MonaiAttrs
  /\ result.status = "ok"
  /\ result.cls.registry = "patch"
  /\ ~In(dictionary, result.tfms[1].module)

Bad(n) == Unknown(n) \/ NonDictionaryOnly(n)

LookupError(n) == IF Unknown(n) THEN "AttributeError" ELSE "AssertionError"

\* C2 as stated: an unresolvable name fails with a ConfigurationError, from
\* get_transform and from the train build, and nothing is returned.
C2_Original ==
  /\ (result.op = "get_transform" /\ Bad(result.arg)) =>
       (result.status = "ConfigurationError" /\ result.tfms = <<>>)
  /\ (result.op = "train" /\ \E n \in Configured(config) : Bad(n)) =>
       (result.status = "ConfigurationError" /\ result.tfms = <<>>)

\* C2 as amended: get_transform raises AttributeError for a name unknown in
\* both registries and AssertionError for a name found only in the
\* non-dictionary family, and returns no transform; a train build whose
\* configuration has such a name raises at build time (that error when the
\* name is the one the build stopped at) and returns no pipeline.
C2_UnresolvableFails ==
  /\ (result.op = "get_transform" /\ Bad(result.arg)) =>
       /\ result.status = LookupError(result.arg)
       /\ result.tfms = <<>>
       /\ ~result.called
  /\ (result.op = "train" /\ \E n \in Configured(config) : Bad(n)) =>
       /\ result.status # "ok"
       /\ result.tfms = <<>>
       /\ result.calls # <<>>
       /\ Bad(result.calls[Len(result.calls)]) =>
            result.status = LookupError(result.calls[Len(result.calls)])

\* a train build that stopped at an unresolvable name after resolving
\* another transform
C2_Witness ==
  /\ result.op = "train"
  /\ Len(result.calls) = 2
  /\ Bad(result.calls[2])
  /\ result.status \in {"AttributeError", "AssertionError"}

\* C3: in every built pipeline the resample step interpolates every image
\* key with bilinear and every label key with nearest.
C3_PerChannelMode ==
  (result.op \in {"train", "val", "test"} /\ result.status = "ok") =>
    LET step == result.tfms[3] IN
    /\ step.cls = "Spacingd"
    /\ \A i \in DOMAIN step.kw.keys :
         ModeOfKey(step, i) =
           IF i <= Len(config.image_cols) THEN "bilinear" ELSE "nearest"

\* C4: no call changes the configuration.
C4_ConfigUnchanged == [][config' = config]_vars

\* C5: a constructor that declares `keys` is called with
\* keys = image_cols + label_cols (order kept, no duplicates) whatever
\* `keys` the configuration gave; one that does not declare `keys` is not
\* passed `keys`.
C5_KeysIfDeclared ==
  (result.op = "get_transform" /\ result.called) =>
    IF "keys" \in result.cls.params
    THEN /\ "keys" \in DOMAIN result.passed
         /\ result.passed.keys = config.image_cols \o config.label_cols
         /\ Cardinality(Range(result.passed.keys)) = Len(result.passed.keys)
    ELSE "keys" \notin DOMAIN result.passed

\* C6: for p in {mode, prob}: a configured p is passed as configured; an
\* unconfigured p the constructor accepts is passed the global value; an
\* unconfigured p the constructor does not accept is not passed.
C6_ModeProbDefaults ==
  (result.op = "get_transform" /\ result.called) =>
    /\ "mode" \in DOMAIN result.given =>
         result.passed.mode = result.given.mode
    /\ "prob" \in DOMAIN result.given =>
         result.passed.prob = result.given.prob
    /\ ("mode" \notin DOMAIN result.given /\ "mode" \in result.cls.params) =>
         ("mode" \in DOMAIN result.passed /\ result.passed.mode = config.mode)
    /\ ("prob" \notin DOMAIN result.given /\ "prob" \in result.cls.params) =>
         ("prob" \in DOMAIN result.passed /\ result.passed.prob = config.prob)
    /\ ("mode" \notin DOMAIN result.given /\ "mode" \notin result.cls.params)
         => "mode" \notin DOMAIN result.passed
    /\ ("prob" \notin DOMAIN result.given /\ "prob" \notin result.cls.params)
         => "prob" \notin DOMAIN result.passed

\* C9: the remap step of a built pipeline uses the (original, target) list
\* of the configuration.
C9_RemapConfigured ==
  (result.op \in {"train", "val", "test"} /\ result.status = "ok") =>
    /\ result.tfms[5].cls = "MapLabelValued"
    /\ result.tfms[5].kw.orig_labels = config.remap.orig_labels
    /\ result.tfms[5].kw.target_labels = config.remap.target_labels

\* C10: the denylisted keys are never resolved; in a built train pipeline
\* every other key was resolved exactly once and its instance is exactly
\* once in the sequence, after the six base steps and before the two final
\* concatenations (image, then label); within a bucket the declaration
\* order is kept.
C10_Partition ==
  result.op = "train" =>
    /\ \A i \in DOMAIN result.calls : result.calls[i] \notin not_a_transform
    /\ result.status = "ok" =>
         LET n == Len(result.tfms) IN
         /\ n >= 8
         /\ \A tn \in Configured(config) :
              /\ Cardinality({i \in DOMAIN result.calls :
                                result.calls[i] = tn}) = 1
              /\ Cardinality({i \in DOMAIN result.tfms :
                                result.tfms[i].id = tn}) = 1
              /\ \A i \in DOMAIN result.tfms :
                   result.tfms[i].id = tn => (6 < i /\ i < n - 1)
         /\ n = 8 + Cardinality(Configured(config))
         /\ result.tfms[n - 1].cls = "ConcatItemsd"
         /\ result.tfms[n - 1].kw.name = "image"
         /\ result.tfms[n].cls = "ConcatItemsd"
         /\ result.tfms[n].kw.name = "label"
         /\ \A i, j \in 7..(n - 2) :
              (i < j /\ Category(result.tfms[i]) = Category(result.tfms[j]))
                => Pos(config.tkeys, result.tfms[i].id)
                     < Pos(config.tkeys, result.tfms[j].id)

====
